---- MODULE Spec2Model ----
(***************************************************************************)
(* The message routes of src/src/routes/v1/rooms.ts: create, delete and    *)
(* typing, behind the create rate limiter.                                 *)
(*                                                                         *)
(* JavaScript runs one handler at a time and a handler gives up the        *)
(* thread only at an await.  An action below is therefore one synchronous  *)
(* segment of a handler: it resumes from the awaited call's result, runs   *)
(* to the next await and issues that call.  The awaited call (storage or   *)
(* bus) takes effect when it is issued and its result is kept in           *)
(* awaited[r] until the handler resumes, so other requests run between a   *)
(* call's effect and the code that follows the await.  Every awaited call  *)
(* may reject.                                                             *)
(***************************************************************************)
EXTENDS Integers, Sequences, FiniteSets, TLC

\* ------------------------------------------------------------------ bounds
NReq == 2
TickMs == 50
MaxWindowTime == 150
OtherAttempts == 2

\* ------------------------------------------------------- program constants
windowMs == 100
max == 50
MaxContentLength == 1024
MESSAGE_WORKER_ID == 1
WorkerBits == 10
SequenceBits == 12

VARIABLES
    now,        \* Date.now(), milliseconds
    hits,       \* the limiter's store: identity -> attempts in the current window
    resetTime,  \* the time the limiter's store next resets its counters
    lastMs,     \* generator: millisecond of the last id
    sequence,   \* generator: sequence number within lastMs
    issued,     \* history: the ids the generator has given, in order
    messages,   \* the message table
    stargate,   \* what was published on the "stargate" channel, in order
    pc,         \* each request's position in its handler
    req,        \* each request's params, body and authorization header
    local,      \* each handler's local variables
    awaited,    \* the result of the call a handler is awaiting
    trace,      \* history: each request's calls and responses, in order
    recent      \* history: the limiter's decisions of the last windowMs

vars == <<now, hits, resetTime, lastMs, sequence, issued, messages, stargate,
          pc, req, local, awaited, trace, recent>>

Requests == 1..NReq
Identities == {"A", "B"}

Min(a, b) == IF a < b THEN a ELSE b

\* --------------------------------------------------------- strings and ids
\* A URL parameter is a sequence of tokens: a run of decimal digits (with the
\* number it denotes) or a character that is no digit.
Dig(n) == [digits |-> TRUE, n |-> n]
X == [digits |-> FALSE, n |-> 0]

NaN == [nan |-> TRUE, n |-> 0]

\* parseInt reads the leading digits of its argument and ignores the rest.
parseInt(s) ==
    IF Len(s) > 0 /\ s[1].digits THEN [nan |-> FALSE, n |-> s[1].n] ELSE NaN

isNaN(v) == v.nan

\* The decimal text of an id, as it appears in a URL.
IdString(id) == <<Dig(id)>>

\* ----------------------------------------------------------------- content
Undefined == [type |-> "undefined", length |-> 0, text |-> ""]
Str(n, t) == [type |-> "string", length |-> n, text |-> t]
Num(t) == [type |-> "number", length |-> 0, text |-> t]

Contents ==
    { Undefined, Str(0, ""), Str(1, "h"), Str(MaxContentLength, "long"),
      Str(MaxContentLength + 1, "longer"), Num("7") }

\* !content
Falsy(content) ==
    \/ content.type = "undefined"
    \/ content.type = "string" /\ content.length = 0

\* ------------------------------------------------------------------- rooms
Rooms ==
    { [id |-> <<Dig(1)>>, type |-> 1], [id |-> <<Dig(2)>>, type |-> 2] }

RoomIdParams == { <<Dig(1)>>, <<Dig(2)>>, <<Dig(1), X>>, <<X>> }

\* Mutant: the lookup has no where clause and returns the first room.
Room_select_NoWhere(room_id) == <<CHOOSE room \in Rooms : room.type = 1>>

\* Room.select({$where: [{equals: ["id", room_id]}], $limit: 1})
Room_select(room_id) ==
    IF \E room \in Rooms : room.id = room_id
    THEN <<CHOOSE room \in Rooms : room.id = room_id>>
    ELSE <<>>

\* ---------------------------------------------------------------- messages
\* Message.select({$where: [{equals: ["id", message_id]}], $limit: 1})
Message_select(table, message_id) ==
    IF \E m \in table : IdString(m.id) = message_id
    THEN <<CHOOSE m \in table : IdString(m.id) = message_id>>
    ELSE <<>>

SameKey(m, id, created_at, room_id) ==
    m.id = id /\ m.created_at = created_at /\ m.room_id = room_id

\* Message.insert(message): the row of that primary key is written.
Message_insert(table, message) ==
    { m \in table : ~SameKey(m, message.id, message.created_at, message.room_id) }
        \cup {message}

\* Mutant: the where clause compares created_at with the id.
Message_delete_IdAsCreatedAt(table, id, created_at, room_id) ==
    { m \in table : ~SameKey(m, id, id, room_id) }

\* Message.delete({$where: id, created_at, room_id})
Message_delete(table, id, created_at, room_id) ==
    { m \in table : ~SameKey(m, id, created_at, room_id) }

\* --------------------------------------------------------------- generator
RECURSIVE Pow2(_)
Pow2(n) == IF n = 0 THEN 1 ELSE 2 * Pow2(n - 1)

\* The sequence number generateSnowflake gives at time t.
NextSequence(t) == IF t = lastMs THEN sequence + 1 ELSE 0

\* Whether the sequence numbers of millisecond t are used up.
SequenceOverflow(t) == NextSequence(t) >= Pow2(SequenceBits)

\* The millisecond of the id generateSnowflake gives at time t: on overflow
\* the generator blocks until the next millisecond.
SnowflakeTime(t) == IF SequenceOverflow(t) THEN t + 1 ELSE t

SnowflakeSequence(t) == IF SequenceOverflow(t) THEN 0 ELSE NextSequence(t)

\* Timestamp, worker id and sequence, concatenated.
Snowflake(t, worker, seq) ==
    (t * Pow2(WorkerBits) + worker) * Pow2(SequenceBits) + seq

\* Mutant: the id carries no sequence number.
generateSnowflake_NoSequence(worker, t) == Snowflake(SnowflakeTime(t), worker, 0)

\* generateSnowflake(worker) called at time t.
generateSnowflake(worker, t) ==
    Snowflake(SnowflakeTime(t), worker, SnowflakeSequence(t))

\* --------------------------------------------------------------------- bus
\* JSON.stringify of an object: its keys and values in source order.
JSON_stringify(obj, keys) == [i \in 1..Len(keys) |-> <<keys[i], obj[keys[i]]>>]

JSON_has(text, key) == \E i \in 1..Len(text) : text[i][1] = key

JSON_get(text, key) == text[CHOOSE i \in 1..Len(text) : text[i][1] = key][2]

\* ----------------------------------------------------------------- limiter
\* rateLimit({windowMs, max, keyGenerator}) with the library's default memory
\* store: one counter per key, every counter reset when the window ends.
keyGenerator(request) == request.authorization

\* Mutant: the store keeps one counter for all keys.
Increment_Shared(store, key) == [k \in DOMAIN store |-> store[k] + 1]

Increment(store, key) == [store EXCEPT ![key] = @ + 1]

\* Mutant: the limit is one too high.
LimitExceeded_OneMore(totalHits) == totalHits > max + 1

\* The limiter rejects a request once its key's count exceeds max.
LimitExceeded(totalHits) == totalHits > max

\* History of the limiter: per identity, the attempts of the current window
\* and of the last windowMs milliseconds, oldest first.  An entry counts the
\* attempts made at time t in the window that ends at `until`.
Noted(log, t, until, admitted) ==
    LET a == IF admitted THEN 1 ELSE 0
    IN  IF Len(log) > 0 /\ log[Len(log)].t = t /\ log[Len(log)].until = until
        THEN [log EXCEPT ![Len(log)] =
                 [t |-> t, until |-> until, admitted |-> @.admitted + a,
                  denied |-> @.denied + (1 - a)]]
        ELSE Append(log, [t |-> t, until |-> until, admitted |-> a,
                          denied |-> 1 - a])

\* The entries of the last windowMs milliseconds before t.
Within(log, t) == SelectSeq(log, LAMBDA e : e.t > t - windowMs)

\* The entries of the window that ends at `until`.
InWindow(log, until) == SelectSeq(log, LAMBDA e : e.until = until)

Kept(log, t, until) ==
    SelectSeq(log, LAMBDA e : e.t > t - windowMs \/ e.until = until)

RECURSIVE Admitted(_)
Admitted(log) == IF log = <<>> THEN 0 ELSE log[1].admitted + Admitted(Tail(log))

RECURSIVE Denied(_)
Denied(log) == IF log = <<>> THEN 0 ELSE log[1].denied + Denied(Tail(log))

\* Mutant: the middleware answers 429 and calls next() all the same.
LimiterVerdict_AlwaysNext(totalHits) ==
    IF LimitExceeded(totalHits)
    THEN [to |-> "create", entries |-> <<[op |-> "res", ok |-> TRUE, status |-> 429,
                                         body |-> [message |-> "Too many requests"]]>>]
    ELSE [to |-> "create", entries |-> <<>>]

\* What the middleware does with a request whose key now counts totalHits:
\* it answers 429 itself, or calls next() and the handler runs.
LimiterVerdict(totalHits) ==
    IF LimitExceeded(totalHits)
    THEN [to |-> "done", entries |-> <<[op |-> "res", ok |-> TRUE, status |-> 429,
                                       body |-> [message |-> "Too many requests"]]>>]
    ELSE [to |-> "create", entries |-> <<>>]

\* The middleware: count the attempt, then admit or reject it.  The store's
\* timer runs a reset that is due before any request is served.
messageCreateLimit(key) ==
    /\ now < resetTime
    /\ hits' = Increment(hits, key)
    /\ recent' = [recent EXCEPT
                     ![key] = Noted(@, now, resetTime,
                                    ~LimitExceeded(hits'[key]))]

\* ---------------------------------------------------------------- requests
NoBody == [message |-> ""]
Call(op, ok) == [op |-> op, ok |-> ok, status |-> 0, body |-> NoBody]
Res(status, body) == [op |-> "res", ok |-> TRUE, status |-> status, body |-> body]
Json(text) == [message |-> text]

NoRequest ==
    [kind |-> "none", room_id |-> <<>>, message_id |-> <<>>,
     content |-> Undefined, authorization |-> "A"]
NoLocal == [room |-> <<>>, message |-> <<>>]
NoResult == [ok |-> TRUE, rows |-> <<>>]

\* What becomes of a handler whose promise rejects with no catch around it:
\* the framework either leaves the request unanswered or, when no response
\* was sent yet, answers 500 itself.
UncaughtOutcomes == {"unanswered", "framework500"}

Responses(r) == SelectSeq(trace[r], LAMBDA e : e.op = "res")

\* Mutant: the rejection is answered 500 even after a response was sent.
Uncaught_AnswersAgain(r, outcome) ==
    IF outcome = "framework500" THEN <<Res(500, Json("framework"))>> ELSE <<>>

Uncaught(r, outcome) ==
    IF outcome = "framework500" /\ Responses(r) = <<>>
    THEN <<Res(500, Json("framework"))>>
    ELSE <<>>

\* Requests are numbered in their order of arrival.
Arrives(r) == pc[r] = "idle" /\ (IF r = 1 THEN TRUE ELSE pc[r - 1] # "idle")

\* One segment of request r: it moves to `to` and leaves `entries` in its trace.
Step(r, to, entries) ==
    /\ pc' = [pc EXCEPT ![r] = to]
    /\ trace' = [trace EXCEPT ![r] = @ \o entries]

\* ------------------------------------------------------------------ create
\* router.post("/:room_id/messages", verifyToken, messageCreateLimit, handler):
\* the request reaches the limiter, which passes it on or answers 429.
\* The limiter reads only the authorization header; the params and the body
\* are drawn where the handler first reads them.
CreateArrive(r) ==
    /\ Arrives(r)
    /\ \E auth \in Identities :
          LET request == [NoRequest EXCEPT !.kind = "create",
                                           !.authorization = auth]
          IN  /\ req' = [req EXCEPT ![r] = request]
              /\ hits[keyGenerator(request)] <= max
              /\ messageCreateLimit(keyGenerator(request))
              /\ LET verdict == LimiterVerdict(hits'[keyGenerator(request)])
                 IN  Step(r, verdict.to, verdict.entries)
    /\ UNCHANGED <<now, issued, resetTime, lastMs, sequence, messages, stargate,
                   local, awaited>>

\* Mutant: the length of the content is not checked.
CreateRejection_NoLengthCheck(request) ==
    CASE isNaN(parseInt(request.room_id)) -> Res(400, Json("Invalid room id"))
      [] Falsy(request.content) ->
            Res(400, Json("You must provide content for your message."))
      [] request.content.type # "string" ->
            Res(400, Json("Message content must be a string."))
      [] OTHER -> Res(0, NoBody)

\* The validation of the create handler: the status and message it rejects
\* the request with, or 0 when the request passes.
CreateRejection(request) ==
    CASE isNaN(parseInt(request.room_id)) -> Res(400, Json("Invalid room id"))
      [] Falsy(request.content) ->
            Res(400, Json("You must provide content for your message."))
      [] request.content.type # "string" ->
            Res(400, Json("Message content must be a string."))
      [] request.content.length > MaxContentLength ->
            Res(400, Json("Message content must be less than 1,024 characters long."))
      [] OTHER -> Res(0, NoBody)

\* Lines 29-50: validate, then await Room.select.  The body is read (line
\* 33) only once the room id has passed.
CreateHandler(r) ==
    /\ pc[r] = "create"
    /\ \E room_id \in RoomIdParams :
       \E content \in IF isNaN(parseInt(room_id)) THEN {NoRequest.content}
                                                 ELSE Contents :
          LET request == [req[r] EXCEPT !.room_id = room_id, !.content = content]
          IN  /\ req' = [req EXCEPT ![r] = request]
              /\ IF CreateRejection(request).status # 0
                 THEN /\ Step(r, "done", <<Call("handler", TRUE),
                                           CreateRejection(request)>>)
                      /\ UNCHANGED awaited
                 ELSE \E ok \in BOOLEAN :
                        /\ awaited' = [awaited EXCEPT ![r] =
                               [ok |-> ok,
                                rows |-> IF ok THEN Room_select(room_id) ELSE <<>>]]
                        /\ Step(r, "create_room",
                                <<Call("handler", TRUE), Call("Room.select", ok)>>)
    /\ UNCHANGED <<now, issued, hits, resetTime, lastMs, sequence, messages, stargate,
                   local, recent>>

\* The record the create handler builds (lines 63-86).
NewMessage(request, message_id, created_at) ==
    [room_id |-> request.room_id, content |-> request.content,
     id |-> message_id, author_id |-> request.authorization,
     created_at |-> created_at]

\* Mutant: every room type takes the branch that writes.
SupportsMessages_AnyType(room) == room.type >= 1

\* Whether the switch on room.type takes the branch that writes (line 62).
SupportsMessages(room) == room.type = 1

\* Lines 52-88: the room, the id, the switch on room.type, then await
\* Message.insert.
CreateRoom(r) ==
    /\ pc[r] = "create_room"
    /\ IF ~awaited[r].ok
       THEN /\ \E o \in UncaughtOutcomes : Step(r, "done", Uncaught(r, o))
            /\ UNCHANGED <<now, lastMs, sequence, issued, messages, local, awaited>>
       ELSE IF awaited[r].rows = <<>>
       THEN /\ Step(r, "done",
                    <<Res(404, Json("The room you were looking for does not exist."))>>)
            /\ UNCHANGED <<now, lastMs, sequence, issued, messages, local, awaited>>
       ELSE LET room == awaited[r].rows[1]
                message_id == generateSnowflake(MESSAGE_WORKER_ID, now)
                message == NewMessage(req[r], message_id, now')
            IN  /\ sequence' = SnowflakeSequence(now)
                /\ lastMs' = SnowflakeTime(now)
                /\ now' = SnowflakeTime(now)
                /\ issued' = Append(issued, message_id)
                /\ IF SupportsMessages(room)
                   THEN \E ok \in BOOLEAN :
                          /\ local' = [local EXCEPT
                                 ![r] = [room |-> <<room>>, message |-> <<message>>]]
                          /\ messages' = IF ok THEN Message_insert(messages, message)
                                                ELSE messages
                          /\ awaited' = [awaited EXCEPT
                                 ![r] = [ok |-> ok, rows |-> <<>>]]
                          /\ Step(r, "create_insert",
                                  <<Call("generateSnowflake", TRUE),
                                    Call("Message.insert", ok)>>)
                   ELSE /\ Step(r, "done",
                                <<Call("generateSnowflake", TRUE),
                                  Res(400, Json("This room does not support message sending."))>>)
                        /\ UNCHANGED <<messages, local, awaited>>
    /\ UNCHANGED <<hits, resetTime, stargate, req, recent>>

\* Mutant: the envelope's id is the record's created_at.
MessageCreateEvent_CreatedAtAsId(room, request, message) ==
    JSON_stringify(
        [event |-> "message_create", room_type |-> room.type, room_id |-> room.id,
         content |-> request.content, id |-> message.created_at,
         created_at |-> message.created_at, author |-> request.authorization],
        <<"event", "room_type", "room_id", "content", "id", "created_at", "author">>)

\* The message_create envelope (lines 94-115), serialised.
MessageCreateEvent(room, request, message) ==
    JSON_stringify(
        [event |-> "message_create", room_type |-> room.type, room_id |-> room.id,
         content |-> request.content, id |-> message.id,
         created_at |-> message.created_at, author |-> request.authorization],
        <<"event", "room_type", "room_id", "content", "id", "created_at", "author">>)

\* Mutant: the publish is awaited before the response is sent.
CreateAfterInsert_PublishFirst(message, published) ==
    <<Call("redis.publish", published), Res(200, message)>>

\* What the create handler does once the insert has resolved (lines 90-116):
\* the entries it leaves in the trace, in order.
CreateAfterInsert(message, published) ==
    <<Res(200, message), Call("redis.publish", published)>>

\* Lines 88-116: the insert resolved or rejected; respond, then await publish.
CreateInserted(r) ==
    /\ pc[r] = "create_insert"
    /\ IF ~awaited[r].ok
       THEN /\ \E o \in UncaughtOutcomes : Step(r, "done", Uncaught(r, o))
            /\ UNCHANGED <<stargate, awaited>>
       ELSE \E ok \in BOOLEAN :
              LET room == local[r].room[1]
                  message == local[r].message[1]
              IN  /\ stargate' =
                        IF ok
                        THEN Append(stargate,
                                 [by |-> r,
                                  text |-> MessageCreateEvent(room, req[r], message)])
                        ELSE stargate
                  /\ awaited' = [awaited EXCEPT ![r] = [ok |-> ok, rows |-> <<>>]]
                  /\ Step(r, "create_publish", CreateAfterInsert(message, ok))
    /\ UNCHANGED <<now, issued, hits, resetTime, lastMs, sequence, messages, req,
                   local, recent>>

\* Lines 116-123: the publish resolved or rejected; the handler ends.
CreatePublished(r) ==
    /\ pc[r] = "create_publish"
    /\ IF ~awaited[r].ok
       THEN \E o \in UncaughtOutcomes : Step(r, "done", Uncaught(r, o))
       ELSE Step(r, "done", <<>>)
    /\ UNCHANGED <<now, issued, hits, resetTime, lastMs, sequence, messages, stargate,
                   req, local, awaited, recent>>

\* ------------------------------------------------------------------ delete
\* An id no message has: the last sequence number of worker 0 at time 0.
MissingId == Pow2(SequenceBits) - 1

ServerError == Res(500, Json("Interal Server Error"))

\* The validation of the delete handler (lines 134-137).
DeleteRejection(request) ==
    CASE isNaN(parseInt(request.room_id)) -> Res(400, Json("Invalid room ID."))
      [] isNaN(parseInt(request.message_id)) -> Res(400, Json("Invalid message ID."))
      [] OTHER -> Res(0, NoBody)

\* router.delete("/:room_id/messages/:message_id", verifyToken, handler),
\* lines 130-143: the request arrives; validate, then await Room.select.
\* The message id is examined (line 136) only once the room id has passed.
DeleteHandler(r) ==
    /\ Arrives(r)
    /\ \E room_id \in RoomIdParams :
       \E message_id \in IF isNaN(parseInt(room_id))
                          THEN {NoRequest.message_id}
                          ELSE {IdString(m.id) : m \in messages}
                                   \cup {IdString(MissingId), <<X>>} :
          LET request == [NoRequest EXCEPT !.kind = "delete", !.room_id = room_id,
                                           !.message_id = message_id]
          IN  /\ req' = [req EXCEPT ![r] = request]
              /\ IF DeleteRejection(request).status # 0
                 THEN /\ Step(r, "done", <<Call("handler", TRUE),
                                           DeleteRejection(request)>>)
                      /\ UNCHANGED awaited
                 ELSE \E ok \in BOOLEAN :
                        /\ awaited' = [awaited EXCEPT ![r] =
                               [ok |-> ok,
                                rows |-> IF ok THEN Room_select(room_id) ELSE <<>>]]
                        /\ Step(r, "delete_room",
                                <<Call("handler", TRUE), Call("Room.select", ok)>>)
    /\ UNCHANGED <<now, issued, hits, resetTime, lastMs, sequence, messages, stargate,
                   local, recent>>

\* Mutant: the lookup answers with a row for any id.
DeleteLookup_AnyId(table, request, room) ==
    IF Message_select(table, request.message_id) # <<>>
    THEN Message_select(table, request.message_id)
    ELSE <<[room_id |-> room.id, content |-> Str(0, ""),
            id |-> parseInt(request.message_id).n, author_id |-> "A",
            created_at |-> 0]>>

\* The rows the delete handler's message lookup returns (lines 152-155): the
\* message of that id, whatever its room.
DeleteLookup(table, request, room) == Message_select(table, request.message_id)

\* Lines 145-155: the room, then await Message.select.
DeleteRoom(r) ==
    /\ pc[r] = "delete_room"
    /\ IF ~awaited[r].ok
       THEN /\ Step(r, "done", <<ServerError>>)
            /\ UNCHANGED <<local, awaited>>
       ELSE IF awaited[r].rows = <<>>
       THEN /\ Step(r, "done",
                    <<Res(404, Json("The room you were looking for does not exist."))>>)
            /\ UNCHANGED <<local, awaited>>
       ELSE \E ok \in BOOLEAN :
              LET room == awaited[r].rows[1]
              IN  /\ local' = [local EXCEPT ![r] = [room |-> <<room>>, message |-> <<>>]]
                  /\ awaited' = [awaited EXCEPT ![r] =
                         [ok |-> ok,
                          rows |-> IF ok THEN DeleteLookup(messages, req[r], room)
                                         ELSE <<>>]]
                  /\ Step(r, "delete_message", <<Call("Message.select", ok)>>)
    /\ UNCHANGED <<now, issued, hits, resetTime, lastMs, sequence, messages, stargate,
                   req, recent>>

\* Lines 157-167: the message, then await Message.delete by its full key.
DeleteMessage(r) ==
    /\ pc[r] = "delete_message"
    /\ IF ~awaited[r].ok
       THEN /\ Step(r, "done", <<ServerError>>)
            /\ UNCHANGED <<messages, local, awaited>>
       ELSE IF awaited[r].rows = <<>>
       THEN /\ Step(r, "done",
                    <<Res(404, Json("The message you were looking for does not exist."))>>)
            /\ UNCHANGED <<messages, local, awaited>>
       ELSE \E ok \in BOOLEAN :
              LET message == awaited[r].rows[1]
              IN  /\ local' = [local EXCEPT ![r].message = <<message>>]
                  /\ messages' =
                        IF ok
                        THEN Message_delete(messages, message.id,
                                            message.created_at, message.room_id)
                        ELSE messages
                  /\ awaited' = [awaited EXCEPT ![r] = [ok |-> ok, rows |-> <<>>]]
                  /\ Step(r, "delete_delete", <<Call("Message.delete", ok)>>)
    /\ UNCHANGED <<now, issued, hits, resetTime, lastMs, sequence, stargate, req, recent>>

\* The message_delete envelope (lines 171-188), serialised.
MessageDeleteEvent(room, request, message) ==
    JSON_stringify(
        [event |-> "message_delete", id |-> message.id, room_id |-> room.id,
         content |-> message.content, author |-> request.authorization],
        <<"event", "id", "room_id", "content", "author">>)

\* Lines 164-189: the delete resolved or rejected; then await publish.
DeleteDeleted(r) ==
    /\ pc[r] = "delete_delete"
    /\ IF ~awaited[r].ok
       THEN /\ Step(r, "done", <<ServerError>>)
            /\ UNCHANGED <<stargate, awaited>>
       ELSE \E ok \in BOOLEAN :
              /\ stargate' =
                    IF ok
                    THEN Append(stargate,
                             [by |-> r,
                              text |-> MessageDeleteEvent(local[r].room[1], req[r],
                                                          local[r].message[1])])
                    ELSE stargate
              /\ awaited' = [awaited EXCEPT ![r] = [ok |-> ok, rows |-> <<>>]]
              /\ Step(r, "delete_publish", <<Call("redis.publish", ok)>>)
    /\ UNCHANGED <<now, issued, hits, resetTime, lastMs, sequence, messages, req,
                   local, recent>>

\* Mutant: a publish that rejects is ignored.
AfterPublish_Ignored(published, success) == success

\* What a handler with a catch-all answers once its publish has settled.
AfterPublish(published, success) == IF published THEN success ELSE ServerError

\* Lines 189-198: the publish resolved or rejected; respond.
DeletePublished(r) ==
    /\ pc[r] = "delete_publish"
    /\ Step(r, "done", <<AfterPublish(awaited[r].ok, Res(202, [message |-> "Sent"]))>>)
    /\ UNCHANGED <<now, issued, hits, resetTime, lastMs, sequence, messages, stargate,
                   req, local, awaited, recent>>

\* ------------------------------------------------------------------ typing
\* The validation of the typing handler: it has none (lines 205-208).
TypingRejection(request) == Res(0, NoBody)

\* router.post("/:room_id/typing", verifyToken, handler), lines 205-211: the
\* request arrives; await Room.select.
TypingHandler(r) ==
    /\ Arrives(r)
    /\ \E room_id \in RoomIdParams :
          LET request == [NoRequest EXCEPT !.kind = "typing", !.room_id = room_id]
          IN  /\ req' = [req EXCEPT ![r] = request]
              /\ IF TypingRejection(request).status # 0
                 THEN /\ Step(r, "done", <<Call("handler", TRUE),
                                           TypingRejection(request)>>)
                      /\ UNCHANGED awaited
                 ELSE \E ok \in BOOLEAN :
                        /\ awaited' = [awaited EXCEPT ![r] =
                               [ok |-> ok,
                                rows |-> IF ok THEN Room_select(room_id) ELSE <<>>]]
                        /\ Step(r, "typing_room",
                                <<Call("handler", TRUE), Call("Room.select", ok)>>)
    /\ UNCHANGED <<now, issued, hits, resetTime, lastMs, sequence, messages, stargate,
                   local, recent>>

\* The typing_start envelope (lines 222-237), serialised.
TypingStartEvent(room, request) ==
    JSON_stringify(
        [event |-> "typing_start", room_id |-> room.id,
         user |-> request.authorization],
        <<"event", "room_id", "user">>)

\* Lines 213-238: the room, then await publish.
TypingRoom(r) ==
    /\ pc[r] = "typing_room"
    /\ IF ~awaited[r].ok
       THEN /\ Step(r, "done", <<ServerError>>)
            /\ UNCHANGED <<stargate, local, awaited>>
       ELSE IF awaited[r].rows = <<>>
       THEN /\ Step(r, "done",
                    <<Res(404, Json("The room you were looking for does not exist."))>>)
            /\ UNCHANGED <<stargate, local, awaited>>
       ELSE \E ok \in BOOLEAN :
              LET room == awaited[r].rows[1]
              IN  /\ local' = [local EXCEPT ![r] = [room |-> <<room>>, message |-> <<>>]]
                  /\ stargate' =
                        IF ok
                        THEN Append(stargate,
                                 [by |-> r, text |-> TypingStartEvent(room, req[r])])
                        ELSE stargate
                  /\ awaited' = [awaited EXCEPT ![r] = [ok |-> ok, rows |-> <<>>]]
                  /\ Step(r, "typing_publish", <<Call("redis.publish", ok)>>)
    /\ UNCHANGED <<now, issued, hits, resetTime, lastMs, sequence, messages, req, recent>>

\* Lines 238-245: the publish resolved or rejected; respond.
TypingPublished(r) ==
    /\ pc[r] = "typing_publish"
    /\ Step(r, "done", <<AfterPublish(awaited[r].ok, Res(204, Json("OK")))>>)
    /\ UNCHANGED <<now, issued, hits, resetTime, lastMs, sequence, messages, stargate,
                   req, local, awaited, recent>>

\* -------------------------------------------------------------------- time
\* Time passes: TickMs milliseconds, or up to the limiter's next reset.
Tick ==
    /\ now < MaxWindowTime
    /\ now < resetTime
    /\ now' = Min(now + TickMs, resetTime)
    /\ recent' = [k \in Identities |-> Kept(recent[k], now', resetTime)]
    /\ UNCHANGED <<hits, resetTime, lastMs, sequence, issued, messages,
                   stargate, pc, req, local, awaited, trace>>

\* The limiter's store resets every counter when the window ends.
WindowReset ==
    /\ now = resetTime
    /\ hits' = [k \in Identities |-> 0]
    /\ resetTime' = now + windowMs
    /\ recent' = [k \in Identities |-> Kept(recent[k], now, resetTime')]
    /\ UNCHANGED <<now, issued, lastMs, sequence, messages, stargate, pc, req, local,
                   awaited, trace>>

\* A create request of identity `key` reaches the limiter; what its handler
\* does is left out here.
LimiterAttempt(key) ==
    /\ hits[key] <= (IF key = "A" THEN max ELSE OtherAttempts)
    /\ messageCreateLimit(key)
    /\ UNCHANGED <<now, issued, resetTime, lastMs, sequence, messages, stargate, pc,
                   req, local, awaited, trace>>

\* ----------------------------------------------------------- specification
\* A message written at millisecond 0 by an earlier create request.
FirstMessage ==
    [room_id |-> <<Dig(1)>>, content |-> Str(5, "first"),
     id |-> Snowflake(0, MESSAGE_WORKER_ID, 0),
     author_id |-> "B", created_at |-> 0]

\* The server one millisecond into a limiter window: identity A has used up
\* its max attempts of the window, identity B has made none, and the table
\* holds the one message written so far.  The requests of this specification
\* are served within that millisecond.
Init ==
    /\ now = 1
    /\ hits = [k \in Identities |-> IF k = "A" THEN max ELSE 0]
    /\ resetTime = windowMs
    /\ lastMs = 0
    /\ sequence = 0
    /\ issued = <<FirstMessage.id>>
    /\ messages = {FirstMessage}
    /\ stargate = <<>>
    /\ pc = [r \in Requests |-> "idle"]
    /\ req = [r \in Requests |-> NoRequest]
    /\ local = [r \in Requests |-> NoLocal]
    /\ awaited = [r \in Requests |-> NoResult]
    /\ trace = [r \in Requests |-> <<>>]
    /\ recent = [k \in Identities |->
                    IF k = "A" THEN <<[t |-> 0, until |-> windowMs,
                                       admitted |-> max, denied |-> 0]>>
                               ELSE <<>>]

Next ==
    \/ \E r \in Requests :
          \/ CreateArrive(r) \/ CreateHandler(r) \/ CreateRoom(r)
          \/ CreateInserted(r) \/ CreatePublished(r)
          \/ DeleteHandler(r) \/ DeleteRoom(r)
          \/ DeleteMessage(r) \/ DeleteDeleted(r) \/ DeletePublished(r)
          \/ TypingHandler(r) \/ TypingRoom(r) \/ TypingPublished(r)

Spec == Init /\ [][Next]_vars

\* The limiter alone, from the construction of its store, as time passes.
InitLimiter ==
    /\ now = 0
    /\ hits = [k \in Identities |-> 0]
    /\ resetTime = windowMs
    /\ lastMs = 0
    /\ sequence = 0
    /\ issued = <<>>
    /\ messages = {}
    /\ stargate = <<>>
    /\ pc = [r \in Requests |-> "idle"]
    /\ req = [r \in Requests |-> NoRequest]
    /\ local = [r \in Requests |-> NoLocal]
    /\ awaited = [r \in Requests |-> NoResult]
    /\ trace = [r \in Requests |-> <<>>]
    /\ recent = [k \in Identities |-> <<>>]

NextLimiter ==
    \/ \E key \in Identities : LimiterAttempt(key)
    \/ Tick
    \/ WindowReset

SpecLimiter == InitLimiter /\ [][NextLimiter]_vars

\* ------------------------------------------------------------------ claims
Has(r, op) == \E i \in 1..Len(trace[r]) : trace[r][i].op = op
Ok(r, op) == \E i \in 1..Len(trace[r]) : trace[r][i].op = op /\ trace[r][i].ok
Failed(r, op) == \E i \in 1..Len(trace[r]) : trace[r][i].op = op /\ ~trace[r][i].ok
NoFailure(r) == \A i \in 1..Len(trace[r]) : trace[r][i].ok
Count(r, op) == Len(SelectSeq(trace[r], LAMBDA e : e.op = op))
Statuses(r) ==
    LET responses == Responses(r)
    IN  [i \in 1..Len(responses) |-> responses[i].status]
Done(r) == pc[r] = "done"
Entered(r, kind) == req[r].kind = kind /\ Has(r, "handler")
StorageOps == {"Room.select", "Message.select", "Message.insert", "Message.delete"}
NoStorageCall(r) == \A i \in 1..Len(trace[r]) : trace[r][i].op \notin StorageOps
Published(r) == \E i \in 1..Len(stargate) : stargate[i].by = r
NoWriteNoPublish(r) ==
    /\ ~Has(r, "Message.insert") /\ ~Has(r, "Message.delete")
    /\ ~Has(r, "redis.publish") /\ ~Published(r)

\* C1: in a create request the insert is attempted before the 200 response
\* and the 200 response is sent before the publish is attempted; a request
\* publishes a message_create event only after its insert succeeded.
C1_PersistRespondPublish ==
    \A r \in Requests :
        req[r].kind = "create" =>
            /\ \A i \in 1..Len(trace[r]) :
                  /\ trace[r][i].op = "res" /\ trace[r][i].status = 200 =>
                        \E k \in 1..(i - 1) : trace[r][k].op = "Message.insert"
                  /\ trace[r][i].op = "redis.publish" =>
                        \E j \in 1..(i - 1) :
                            trace[r][j].op = "res" /\ trace[r][j].status = 200
            /\ (Has(r, "redis.publish") \/ Published(r)) => Ok(r, "Message.insert")

C1_Witness ==
    \E r \in Requests :
        /\ req[r].kind = "create" /\ Done(r) /\ Statuses(r) = <<200>>
        /\ Published(r)

\* C2: a delete request through an existing room for a message stored under
\* another room is answered 404, deletes nothing and publishes nothing.
C2_CrossRoomDeleteNotFound ==
    \A r \in Requests :
        ( /\ req[r].kind = "delete" /\ Done(r) /\ NoFailure(r)
          /\ local[r].message # <<>>
          /\ local[r].message[1].room_id # req[r].room_id )
        => /\ Statuses(r) = <<404>>
           /\ NoWriteNoPublish(r)

\* C3: a room id that fails integer parsing gets the 400 response from each
\* of create, delete and typing, with no storage call and no publish.
C3_InvalidRoomIdRejected ==
    \A r \in Requests :
        ( /\ \E kind \in {"create", "delete", "typing"} : Entered(r, kind)
          /\ isNaN(parseInt(req[r].room_id)) )
        => /\ NoStorageCall(r)
           /\ ~Has(r, "redis.publish")
           /\ Done(r) => Statuses(r) = <<400>>

\* C4: a create request that passes validation and finds a room whose type
\* is not 1 is answered 400 "does not support message sending"; it writes
\* nothing and publishes nothing.
C4_UnsupportedRoomType ==
    \A r \in Requests :
        ( /\ Entered(r, "create")
          /\ CreateRejection(req[r]).status = 0
          /\ \E room \in Rooms : room.id = req[r].room_id /\ room.type # 1 )
        => /\ NoWriteNoPublish(r)
           /\ \A m \in messages : m.room_id # req[r].room_id
           /\ (Done(r) /\ Ok(r, "Room.select")) =>
                 Responses(r) =
                     <<Res(400, Json("This room does not support message sending."))>>

C4_Witness ==
    \E r \in Requests :
        /\ Entered(r, "create") /\ Done(r)
        /\ Responses(r) =
               <<Res(400, Json("This room does not support message sending."))>>
        /\ messages # {FirstMessage}

\* C5: a create request whose content is a string of length 0 or of length
\* over 1024 is answered 400 and writes and publishes nothing; when the
\* content has length 1 to 1024 and the insert succeeds, the record inserted
\* carries exactly the request's content.
C5_ContentLength ==
    \A r \in Requests :
        (Entered(r, "create") /\ req[r].content.type = "string") =>
            /\ (req[r].content.length = 0 \/ req[r].content.length > 1024) =>
                  /\ NoWriteNoPublish(r)
                  /\ Done(r) => Statuses(r) = <<400>>
            /\ ( /\ req[r].content.length \in 1..1024
                 /\ Ok(r, "Message.insert") ) =>
                  /\ local[r].message[1].content = req[r].content
                  /\ \A m \in messages :
                        m.id = local[r].message[1].id => m.content = req[r].content
                  /\ \/ \E m \in messages : m.id = local[r].message[1].id
                     \/ \E d \in Requests :
                           /\ Has(d, "Message.delete")
                           /\ local[d].message[1].id = local[r].message[1].id

C5_Witness ==
    \E r, q \in Requests :
        /\ Entered(r, "create") /\ req[r].content.length = 1024
        /\ Ok(r, "Message.insert")
        /\ \E m \in messages :
              m.id = local[r].message[1].id /\ m.content = req[r].content
        /\ Entered(q, "create") /\ req[q].content.length = 1025
        /\ Done(q) /\ Statuses(q) = <<400>>

\* C6: a create request the limiter denies is answered 429 and its handler
\* never runs: no room lookup, no id, no write and no publish.
C6_DeniedNeverEnters ==
    /\ \A r \in Requests :
          (\E i \in 1..Len(trace[r]) : trace[r][i].status = 429) =>
              /\ Len(trace[r]) = 1
              /\ Done(r)
              /\ ~Published(r)
    /\ \A k \in Identities :
          Denied(recent[k]) =
              Cardinality({r \in Requests :
                  /\ req[r].kind = "create" /\ req[r].authorization = k
                  /\ Statuses(r) = <<429>>})

C6_Witness ==
    \E r, q \in Requests :
        /\ Statuses(r) = <<429>> /\ Done(r)
        /\ Entered(q, "create") /\ Ok(q, "Message.insert")

\* C7 as claimed: when 51 attempts of one identity fall within 100 ms, one
\* of them is denied; an attempt is denied only when it is at least the 51st
\* of the 100 ms that end with it.
C7_AnyHundredMs ==
    \A k \in Identities :
        LET log == Within(recent[k], now)
        IN  /\ Admitted(log) + Denied(log) >= max + 1 => Denied(log) >= 1
            /\ (log # <<>> /\ log[Len(log)].t = now /\ log[Len(log)].denied >= 1)
                  => Admitted(log) + Denied(log) >= max + 1

\* C7, amended: of the attempts of one identity within one window of the
\* limiter (between two resets of its counters), the 51st and later are
\* denied, and 50 or fewer are all admitted.
C7_PerLimiterWindow ==
    \A k \in Identities :
        LET log == InWindow(recent[k], resetTime)
        IN  /\ Admitted(log) + Denied(log) = hits[k]
            /\ Admitted(log) <= max
            /\ Admitted(log) + Denied(log) >= max + 1 => Denied(log) >= 1
            /\ Admitted(log) + Denied(log) <= max => Denied(log) = 0

C7_Witness ==
    /\ resetTime > windowMs
    /\ Admitted(InWindow(recent["A"], resetTime)) = max
    /\ Denied(InWindow(recent["A"], resetTime)) = 1
    /\ Admitted(Within(recent["A"], now)) > max

\* The status a request answers when nothing fails.
SuccessStatus(kind) ==
    CASE kind = "create" -> 200 [] kind = "delete" -> 202 [] OTHER -> 204

\* C8: a publish that fails does not change the status the caller receives
\* (200 for create, 202 for delete, 204 for typing) and is not retried.
C8_PublishFailureHidden ==
    \A r \in Requests :
        (Done(r) /\ Failed(r, "redis.publish")) =>
            /\ Statuses(r) = <<SuccessStatus(req[r].kind)>>
            /\ Count(r, "redis.publish") = 1

\* C9: a create request whose insert fails ends with a server-error response,
\* sends no 200, publishes nothing and leaves no record.
C9_InsertFailureIsServerError ==
    \A r \in Requests :
        (req[r].kind = "create" /\ Done(r) /\ Failed(r, "Message.insert")) =>
            /\ Statuses(r) = <<500>>
            /\ ~Has(r, "redis.publish") /\ ~Published(r)
            /\ \A m \in messages : m.id # local[r].message[1].id

\* C10: in the delete and typing flows a storage or bus call that fails is
\* caught and the caller receives the generic 500 response, and nothing else;
\* a delete whose Message.delete failed publishes nothing.
C10_CaughtAtBoundary ==
    \A r \in Requests :
        (req[r].kind \in {"delete", "typing"} /\ ~NoFailure(r)) =>
            /\ Responses(r) = IF Done(r) THEN <<ServerError>> ELSE <<>>
            /\ Failed(r, "Message.delete") =>
                  ~Has(r, "redis.publish") /\ ~Published(r)

C10_Witness ==
    \E r, q \in Requests :
        /\ req[r].kind = "delete" /\ Done(r) /\ Failed(r, "Message.delete")
        /\ Responses(r) = <<ServerError>>
        /\ req[q].kind = "typing" /\ Done(q) /\ Failed(q, "redis.publish")
        /\ Responses(q) = <<ServerError>>

\* The events request r has published, in order.
EventsBy(r) == SelectSeq(stargate, LAMBDA e : e.by = r)

\* Whether an entry `earlier` precedes every entry `later` in the trace of r.
Precedes(r, earlier(_), later(_)) ==
    \A i \in 1..Len(trace[r]) :
        later(trace[r][i]) => \E j \in 1..(i - 1) : earlier(trace[r][j])

\* C11: a delete request that found its room and its message and met no
\* failure removes the record by its full key (id, created_at, room_id)
\* before it publishes; the message_delete event carries the id and the
\* content of that record; the publish precedes the 202 response, which is
\* the only response; and once the request is done a lookup of the message
\* id finds nothing.
C11_DeleteThenPublishThenAccepted ==
    \A r \in Requests :
        (req[r].kind = "delete" /\ NoFailure(r) /\ local[r].message # <<>>) =>
            LET message == local[r].message[1]
            IN  /\ Ok(r, "Message.delete")
                /\ \A m \in messages :
                      ~(m.id = message.id /\ m.created_at = message.created_at
                            /\ m.room_id = message.room_id)
                /\ Precedes(r, LAMBDA e : e.op = "Message.delete",
                               LAMBDA e : e.op = "redis.publish")
                /\ Precedes(r, LAMBDA e : e.op = "redis.publish",
                               LAMBDA e : e.op = "res")
                /\ \A i \in 1..Len(EventsBy(r)) :
                      LET text == EventsBy(r)[i].text
                      IN  /\ JSON_get(text, "event") = "message_delete"
                          /\ JSON_get(text, "id") = message.id
                          /\ JSON_get(text, "content") = message.content
                /\ Done(r) =>
                      /\ Responses(r) = <<Res(202, [message |-> "Sent"])>>
                      /\ Len(EventsBy(r)) = 1
                      /\ Message_select(messages, req[r].message_id) = <<>>

C11_Witness ==
    \E r \in Requests :
        /\ req[r].kind = "delete" /\ Done(r) /\ NoFailure(r)
        /\ Statuses(r) = <<202>>
        /\ Len(EventsBy(r)) = 1
        /\ JSON_get(EventsBy(r)[1].text, "content") = FirstMessage.content
        /\ FirstMessage \notin messages

\* The 200 responses of request r.
Accepted(r) == SelectSeq(trace[r], LAMBDA e : e.op = "res" /\ e.status = 200)

\* C12: a create request that was answered 200 has the id and the created_at
\* of its record in the response body, and in the same segment it has
\* attempted its one publish; when the bus accepts the publish, the channel
\* holds exactly one event of that request, a message_create whose id and
\* content are those of the response body, of the record the handler built
\* and of the stored record of that id.
C12_AcceptedThenPublished ==
    \A r \in Requests :
        (req[r].kind = "create" /\ Accepted(r) # <<>>) =>
            LET body == Accepted(r)[1].body
                record == local[r].message[1]
            IN  /\ body.id = record.id /\ body.id > 0
                /\ body.created_at = record.created_at /\ body.created_at >= 0
                /\ body.content = req[r].content
                /\ Count(r, "redis.publish") = 1
                /\ Ok(r, "redis.publish") =>
                      /\ Len(EventsBy(r)) = 1
                      /\ JSON_get(EventsBy(r)[1].text, "event") = "message_create"
                      /\ JSON_get(EventsBy(r)[1].text, "id") = body.id
                      /\ JSON_get(EventsBy(r)[1].text, "content") = body.content
                      /\ \A m \in messages :
                            m.id = body.id => m.content = body.content

C12_Witness ==
    \E r \in Requests :
        /\ req[r].kind = "create" /\ Done(r) /\ Statuses(r) = <<200>>
        /\ Ok(r, "redis.publish")
        /\ \E m \in messages :
              /\ m.id = Accepted(r)[1].body.id
              /\ m.id = JSON_get(EventsBy(r)[1].text, "id")
              /\ m.content = JSON_get(EventsBy(r)[1].text, "content")

\* C13: whatever its storage and bus calls return, a request sends at most
\* one response and attempts at most one publish, so at most one event of it
\* is on the channel: no response follows a response, whatever failed in
\* between, and no publish follows a publish.
C13_OneResponseOnePublish ==
    /\ \A r \in Requests : \A i \in 1..Len(trace[r]) :
          /\ trace[r][i].op = "res" =>
                \A k \in (i + 1)..Len(trace[r]) : trace[r][k].op # "res"
          /\ trace[r][i].op = "redis.publish" =>
                \A k \in (i + 1)..Len(trace[r]) : trace[r][k].op # "redis.publish"
    /\ \A i \in 1..Len(stargate) : \A k \in (i + 1)..Len(stargate) :
          stargate[i].by # stargate[k].by

C13_Witness ==
    \E r \in Requests :
        /\ req[r].kind = "create" /\ Done(r)
        /\ Failed(r, "redis.publish")
        /\ Statuses(r) = <<200>>

MessageStoreOps == {"Message.select", "Message.insert", "Message.delete"}

RoomExists(room_id) == \E room \in Rooms : room.id = room_id

\* C14: a typing request makes no call on the message store.  When its room
\* exists and no call fails it publishes exactly one event, a typing_start
\* of that room, and then answers 204, its only response.  When no room has
\* its room id it never publishes, and it answers 404 once the lookup has
\* returned.
C14_TypingLeavesMessagesAlone ==
    \A r \in Requests :
        req[r].kind = "typing" =>
            /\ \A i \in 1..Len(trace[r]) : trace[r][i].op \notin MessageStoreOps
            /\ (RoomExists(req[r].room_id) /\ NoFailure(r)) =>
                  /\ Precedes(r, LAMBDA e : e.op = "redis.publish",
                                 LAMBDA e : e.op = "res")
                  /\ \A i \in 1..Len(EventsBy(r)) :
                        /\ JSON_get(EventsBy(r)[i].text, "event") = "typing_start"
                        /\ JSON_get(EventsBy(r)[i].text, "room_id") = req[r].room_id
                  /\ Done(r) =>
                        /\ Len(EventsBy(r)) = 1
                        /\ Responses(r) = <<Res(204, Json("OK"))>>
            /\ ~RoomExists(req[r].room_id) =>
                  /\ ~Has(r, "redis.publish") /\ ~Published(r)
                  /\ (Done(r) /\ NoFailure(r)) => Statuses(r) = <<404>>

C14_Witness ==
    \E r, q \in Requests :
        /\ req[r].kind = "typing" /\ Done(r) /\ Statuses(r) = <<204>>
        /\ Len(EventsBy(r)) = 1
        /\ req[q].kind = "typing" /\ Done(q) /\ Statuses(q) = <<404>>
        /\ messages = {FirstMessage}

\* The attempts of identity k the limiter has decided in its current window.
OwnAttempts(k) ==
    Admitted(InWindow(recent[k], resetTime)) + Denied(InWindow(recent[k], resetTime))

\* C15: the limiter's decision for an attempt of identity k is a function of
\* the earlier attempts of k in the current window (admitted exactly when
\* they are fewer than max), and an attempt of k leaves the counter and the
\* decisions of every other identity as they were.  Two runs that differ
\* only in the attempts of other identities therefore decide the attempts
\* of k alike.  The limiter reads the authorization header and nothing else
\* of a request.
C15_OwnAttemptsOnly ==
    [][ \A k \in Identities :
            /\ hits[k] = OwnAttempts(k)
            /\ hits'[k] = hits[k] + 1 =>
                  /\ IF OwnAttempts(k) < max
                     THEN /\ Admitted(recent'[k]) = Admitted(recent[k]) + 1
                          /\ Denied(recent'[k]) = Denied(recent[k])
                     ELSE /\ Admitted(recent'[k]) = Admitted(recent[k])
                          /\ Denied(recent'[k]) = Denied(recent[k]) + 1
                  /\ \A j \in Identities \ {k} :
                        hits'[j] = hits[j] /\ recent'[j] = recent[j]
      ]_vars

C15_Witness ==
    /\ Admitted(InWindow(recent["A"], resetTime)) = max
    /\ Denied(InWindow(recent["A"], resetTime)) = 1
    /\ Admitted(InWindow(recent["B"], resetTime)) = OtherAttempts
    /\ Denied(recent["B"]) = 0
    /\ resetTime > windowMs

\* The worker id an id carries.
WorkerOf(id) == (id \div Pow2(SequenceBits)) % Pow2(WorkerBits)

\* The millisecond an id carries.
TimeOf(id) == id \div Pow2(SequenceBits + WorkerBits)

\* The create requests that have built a record.
Builders == {r \in Requests : req[r].kind = "create" /\ local[r].message # <<>>}

\* C16: the ids the generator gives to create requests all carry the worker
\* id MESSAGE_WORKER_ID, and each is greater than every id given before it,
\* those of the same millisecond included; the records create requests have
\* built carry ids the generator gave, one record per id, so no two records
\* of the message table share an id.
C16_IdsDistinctAndIncreasing ==
    /\ \A i \in 1..Len(issued) :
          /\ WorkerOf(issued[i]) = MESSAGE_WORKER_ID
          /\ \A j \in (i + 1)..Len(issued) : issued[i] < issued[j]
    /\ \A r \in Builders :
          /\ \E i \in 1..Len(issued) : issued[i] = local[r].message[1].id
          /\ \A q \in Builders \ {r} :
                local[r].message[1].id # local[q].message[1].id
    /\ \A m \in messages : \E i \in 1..Len(issued) : issued[i] = m.id
    /\ \A m1, m2 \in messages : m1.id = m2.id => m1 = m2

C16_Witness ==
    \E r, q \in Requests :
        /\ r # q
        /\ Ok(r, "Message.insert") /\ Ok(q, "Message.insert")
        /\ local[r].message[1] \in messages /\ local[q].message[1] \in messages
        /\ TimeOf(local[r].message[1].id) = TimeOf(local[q].message[1].id)
        /\ local[r].message[1].id < local[q].message[1].id
        /\ TimeOf(FirstMessage.id) < TimeOf(local[r].message[1].id)
        /\ Len(issued) = 3

\* C17: a create request calls the generator only after its validation, its
\* room lookup and the switch on room.type have let it through: a request
\* that called the generator has found a room of type 1, a request that was
\* rejected with 400 or 404 has not called it, and the generator has given
\* one id per request that went on to build a record.
C17_GeneratorAfterDispatch ==
    /\ \A r \in Requests :
          req[r].kind = "create" =>
              /\ Precedes(r, LAMBDA e : e.op = "Room.select" /\ e.ok,
                             LAMBDA e : e.op = "generateSnowflake")
              /\ Has(r, "generateSnowflake") =>
                    \E room \in Rooms : room.id = req[r].room_id /\ room.type = 1
              /\ (\E i \in 1..Len(trace[r]) : trace[r][i].status \in {400, 404})
                    => ~Has(r, "generateSnowflake")
    /\ Len(issued) = 1 + Cardinality(Builders)

\* Whether the i-th event on the channel is `event` for message id.
IsEvent(i, event, id) ==
    /\ JSON_get(stargate[i].text, "event") = event
    /\ JSON_get(stargate[i].text, "id") = id

\* The ids of the records the create requests have built.
BuiltIds == {local[r].message[1].id : r \in Builders}

\* Every message_delete event of a message built by a create request
\* follows the message_create event of that message on the channel.
DeleteFollowsCreate ==
    \A j \in 1..Len(stargate), id \in BuiltIds :
        IsEvent(j, "message_delete", id) =>
            \E i \in 1..(j - 1) : IsEvent(i, "message_create", id)

\* C18 as claimed: on the channel the message_delete event of a message
\* never precedes its message_create event, and a create request is answered
\* 200 only while its record is in the message table.
C18_CreateEventBeforeDeleteEvent ==
    [][ /\ DeleteFollowsCreate'
        /\ \A r \in Requests :
              (Accepted(r) = <<>> /\ Accepted(r)' # <<>>) =>
                  local[r].message[1] \in messages
      ]_vars

\* C18, amended: a message_delete event of an id is published only after a
\* record of that id was inserted and after the publishing request's own
\* delete of it succeeded, so the record is not in the table when the event
\* is on the channel; the 200 response and the message_create event of the
\* create request may come after them.
C18_InsertBeforeDeleteEvent ==
    \A j \in 1..Len(stargate) :
        JSON_get(stargate[j].text, "event") = "message_delete" =>
            LET id == JSON_get(stargate[j].text, "id")
            IN  /\ Ok(stargate[j].by, "Message.delete")
                /\ \/ id = FirstMessage.id
                   \/ \E c \in Requests :
                         /\ req[c].kind = "create" /\ Ok(c, "Message.insert")
                         /\ local[c].message[1].id = id
                /\ \A m \in messages : m.id # id

C18_Witness ==
    \E c, d \in Requests, i, j \in 1..Len(stargate) :
        /\ req[c].kind = "create" /\ req[d].kind = "delete"
        /\ j < i
        /\ stargate[j].by = d /\ stargate[i].by = c
        /\ IsEvent(j, "message_delete", local[c].message[1].id)
        /\ IsEvent(i, "message_create", local[c].message[1].id)
        /\ Statuses(c) = <<200>> /\ Done(d) /\ Statuses(d) = <<202>>

\* The delete requests for message_id that came through an existing room.
DeletesOf(message_id) ==
    {d \in Requests :
        /\ req[d].kind = "delete" /\ req[d].message_id = message_id
        /\ RoomExists(req[d].room_id)}

\* C19: of the delete requests for one message at most one publishes a
\* message_delete event or is answered 202; once one of them has been
\* answered 202, every other one that is done and met no failure has been
\* answered the message-not-found 404 and has published nothing.
C19_OneDeleteWins ==
    \A m \in {FirstMessage} \cup messages :
        LET ds == DeletesOf(IdString(m.id))
        IN  /\ Cardinality({d \in ds : Published(d) \/ Statuses(d) = <<202>>}) <= 1
            /\ \A d, e \in ds :
                  ( /\ d # e /\ Statuses(d) = <<202>>
                    /\ Done(e) /\ NoFailure(e) ) =>
                      /\ Responses(e) =
                            <<Res(404, Json("The message you were looking for does not exist."))>>
                      /\ ~Has(e, "redis.publish") /\ ~Published(e)

====
